---- MODULE Spec2Model ----
(***************************************************************************)
(* Model of sphinx_docstring_typing: the docstring hook that rewrites PEP  *)
(* 484 annotations found in docstring lines into :py:obj: references.      *)
(*                                                                         *)
(* Text is a sequence of atoms.  An atom is a fixed, indivisible run of    *)
(* characters ("List", "[", " ", ":py:obj:", ...); the string a text       *)
(* stands for is the concatenation of its atoms, and the atoms are chosen  *)
(* so that every string has one decomposition.  An identifier is a         *)
(* maximal run of identifier atoms, so <<"Any","Str">> is the name AnyStr. *)
(*                                                                         *)
(* ast.parse is modelled for the interpreters the module was written for   *)
(* (CPython 3.5 - 3.8), where a subscript's slice is an Index node; that   *)
(* is the node RedocVisitor.visit_Index emits the brackets for.            *)
(***************************************************************************)
EXTENDS Integers, Sequences, FiniteSets, TLC

VARIABLES
    lines,       \* the caller's buffer, rewritten in place
    old_lines,   \* old_lines = lines[:] of line 133
    n,           \* the index of the loop of line 135 (from 1)
    pc,          \* "loop" inside the loop, "done" once the hook has returned
    calls,       \* how many times the host has called the hook
    warnings,    \* the _LOGGER.warn records of this call
    verbose,     \* the _LOGGER.verbose records of this call
    assigned,    \* the indices this call has assigned lines[n] at
    log,         \* per finished call, its buffer before and after and its records
    annotation,  \* the argument of a transform() call
    parsed,      \* the tree ast.parse returned to it
    tree,        \* its local tree
    output,      \* its visitor.output
    tpc          \* where that transform() call is

vars == <<lines, old_lines, n, pc, calls, warnings, verbose, assigned, log,
          annotation, parsed, tree, output, tpc>>

docVars == <<lines, old_lines, n, pc, calls, warnings, verbose, assigned, log>>
trVars == <<annotation, parsed, tree, output, tpc>>

(***************************************************************************)
(* Bounds.                                                                 *)
(***************************************************************************)
MaxBufLen == 6
MaxLineLen == 6
MaxEmbedLen == 6
MaxRerunLen == 5
MaxCalls == 2
MaxNodes == 5

(***************************************************************************)
(* Vocabulary.                                                             *)
(***************************************************************************)
\* The names of typing.__all__ the model carries: List, Any, AnyStr, Dict,
\* DefaultDict and cast.
TypingAll ==
    {<<"List">>, <<"Any">>, <<"Any", "Str">>, <<"Dict">>, <<"Default", "Dict">>,
     <<"cast">>}

\* The helper names line 26-27 removes from the vocabulary.
ExcludedHelpers == {<<"cast">>}

_TYPES == TypingAll \ ExcludedHelpers

\* In the order of the tuple of line 36: Any comes before AnyStr.
_BARE_TYPES == << <<"Any">>, <<"Any", "Str">> >>

\* The check a renderer would make if it looked the name up in the locator's
\* vocabulary instead of in the typing module.
HasattrTypingVocabulary(name) == name \in _TYPES

\* hasattr(typing, name): every exported name is an attribute of the module.
HasattrTyping(name) == name \in TypingAll

\* The atom of the backtick character (a TLA+ string cannot hold one).
Backtick == "<backtick>"

\* Atoms that are identifier characters.
IdentAtoms == {"List", "Any", "Str", "Default", "Dict", "cast", "int", "typing"}

(***************************************************************************)
(* Sequence helpers.                                                       *)
(***************************************************************************)
At(text, i) == IF i >= 1 /\ i <= Len(text) THEN text[i] ELSE "<eol>"

NameAt(text, p, name) ==
    /\ p >= 1
    /\ p + Len(name) - 1 <= Len(text)
    /\ SubSeq(text, p, p + Len(name) - 1) = name

Min(S) == CHOOSE x \in S : \A y \in S : x <= y
Max(S) == CHOOSE x \in S : \A y \in S : x >= y

\* The element of a one-element set.  Only({e : v \in {a}}) is e with v
\* naming the value of a: the local variable of a statement v = a.
Only(S) == CHOOSE x \in S : TRUE

(***************************************************************************)
(* ast node constructors (the node kinds ast.parse builds for the atoms    *)
(* the model carries).                                                     *)
(***************************************************************************)
Name(id) == [type |-> "Name", id |-> id]
Attribute(value, attr) == [type |-> "Attribute", value |-> value, attr |-> attr]
Subscript(value, slice) == [type |-> "Subscript", value |-> value, slice |-> slice]
Index(value) == [type |-> "Index", value |-> value]
Tuple(elts) == [type |-> "Tuple", elts |-> elts]
List(elts) == [type |-> "List", elts |-> elts]
Starred(value) == [type |-> "Starred", value |-> value]
BinOp(left, op, right) == [type |-> "BinOp", left |-> left, op |-> op, right |-> right]
UnaryOp(op, operand) == [type |-> "UnaryOp", op |-> op, operand |-> operand]
Ellipsis == [type |-> "Ellipsis"]
Expr(value) == [type |-> "Expr", value |-> value]
Module(body) == [type |-> "Module", body |-> body]

\* The outcome of a call that may raise.
Raised == [ok |-> FALSE]

(***************************************************************************)
(* ast.parse, the tokenizer: identifier atoms merge into one NAME, three   *)
(* dots are the ELLIPSIS token, two stars the ** operator, blanks separate *)
(* tokens, and a backtick or a colon has no place in an expression.        *)
(***************************************************************************)
ExpandAtom(a) == IF a = "~typing." THEN <<"~", "typing", ".">> ELSE <<a>>

RECURSIVE ExpandAtoms(_)
ExpandAtoms(text) ==
    IF text = <<>> THEN <<>>
    ELSE ExpandAtom(Head(text)) \o ExpandAtoms(Tail(text))

RunEnd(s, i) == Max({j \in i..Len(s) : \A k \in i..j : s[k] \in IdentAtoms})

Token(k, id) == [k |-> k, id |-> id]

RECURSIVE Lex(_, _)
Lex(s, i) ==
    IF i > Len(s) THEN <<>>
    ELSE IF s[i] \in IdentAtoms
        THEN <<Token("NAME", SubSeq(s, i, RunEnd(s, i)))>> \o Lex(s, RunEnd(s, i) + 1)
    ELSE IF s[i] = " " THEN Lex(s, i + 1)
    ELSE IF s[i] = "." /\ At(s, i + 1) = "." /\ At(s, i + 2) = "."
        THEN <<Token("...", <<>>)>> \o Lex(s, i + 3)
    ELSE IF s[i] = "*" /\ At(s, i + 1) = "*"
        THEN <<Token("**", <<>>)>> \o Lex(s, i + 2)
    ELSE IF s[i] \in {"[", "]", ",", ".", "~", "*"}
        THEN <<Token(s[i], <<>>)>> \o Lex(s, i + 1)
    ELSE <<Token("BAD", <<>>)>> \o Lex(s, i + 1)

Tok(toks, p) == IF p <= Len(toks) THEN toks[p].k ELSE "EOF"

(***************************************************************************)
(* ast.parse, the grammar (Grammar/Grammar of CPython 3.5 - 3.8, the rules *)
(* the tokens above can reach):                                            *)
(*   testlist_star_expr: (test|star_expr) (',' (test|star_expr))* [',']    *)
(*   term:      factor ('*' factor)*                                       *)
(*   factor:    '~' factor | power                                         *)
(*   power:     atom_expr ['**' factor]                                    *)
(*   atom_expr: atom trailer*                                              *)
(*   atom:      '[' [testlist_comp] ']' | NAME | '...'                     *)
(*   trailer:   '[' subscriptlist ']' | '.' NAME                           *)
(***************************************************************************)
RECURSIVE ParseTerm(_, _), ParseTermRest(_, _, _), ParseFactor(_, _),
          ParsePower(_, _), ParseAtomExpr(_, _), ParseTrailers(_, _, _),
          ParseAtom(_, _), ParseElts(_, _, _), ParseEltsRest(_, _, _, _),
          ParseItem(_, _, _)

Parsed(node, pos) == [ok |-> TRUE, node |-> node, pos |-> pos]

ParseAtom(toks, p) ==
    IF Tok(toks, p) = "NAME" THEN Parsed(Name(toks[p].id), p + 1)
    ELSE IF Tok(toks, p) = "..." THEN Parsed(Ellipsis, p + 1)
    ELSE IF Tok(toks, p) = "["
        THEN IF Tok(toks, p + 1) = "]" THEN Parsed(List(<<>>), p + 2)
             ELSE Only({IF r.ok /\ Tok(toks, r.pos) = "]"
                        THEN Parsed(List(r.elts), r.pos + 1)
                        ELSE Raised :
                        r \in {ParseElts(toks, p + 1, TRUE)}})
    ELSE Raised

ParseTrailers(toks, node, p) ==
    IF Tok(toks, p) = "["
        THEN Only({IF r.ok /\ Tok(toks, r.pos) = "]"
                   THEN ParseTrailers(toks,
                          Subscript(node, Index(IF r.comma THEN Tuple(r.elts)
                                                           ELSE r.elts[1])),
                          r.pos + 1)
                   ELSE Raised :
                   r \in {ParseElts(toks, p + 1, FALSE)}})
    ELSE IF Tok(toks, p) = "."
        THEN IF Tok(toks, p + 1) = "NAME"
             THEN ParseTrailers(toks, Attribute(node, toks[p + 1].id), p + 2)
             ELSE Raised
    ELSE Parsed(node, p)

ParseAtomExpr(toks, p) ==
    Only({IF a.ok THEN ParseTrailers(toks, a.node, a.pos) ELSE Raised :
          a \in {ParseAtom(toks, p)}})

ParsePower(toks, p) ==
    Only({IF ~a.ok THEN Raised
          ELSE IF Tok(toks, a.pos) = "**"
              THEN Only({IF f.ok THEN Parsed(BinOp(a.node, "Pow", f.node), f.pos)
                         ELSE Raised :
                         f \in {ParseFactor(toks, a.pos + 1)}})
          ELSE a :
          a \in {ParseAtomExpr(toks, p)}})

ParseFactor(toks, p) ==
    IF Tok(toks, p) = "~"
        THEN Only({IF f.ok THEN Parsed(UnaryOp("Invert", f.node), f.pos) ELSE Raised :
                   f \in {ParseFactor(toks, p + 1)}})
    ELSE ParsePower(toks, p)

ParseTermRest(toks, left, p) ==
    IF Tok(toks, p) = "*"
        THEN Only({IF f.ok THEN ParseTermRest(toks, BinOp(left, "Mult", f.node), f.pos)
                   ELSE Raised :
                   f \in {ParseFactor(toks, p + 1)}})
    ELSE Parsed(left, p)

ParseTerm(toks, p) ==
    Only({IF f.ok THEN ParseTermRest(toks, f.node, f.pos) ELSE Raised :
          f \in {ParseFactor(toks, p)}})

\* test | star_expr (a star_expr only where the grammar has one).
ParseItem(toks, p, allowStar) ==
    IF allowStar /\ Tok(toks, p) = "*"
        THEN Only({IF e.ok THEN Parsed(Starred(e.node), e.pos) ELSE Raised :
                   e \in {ParseTerm(toks, p + 1)}})
    ELSE ParseTerm(toks, p)

ParseEltsRest(toks, elts, p, allowStar) ==
    IF Tok(toks, p) = ","
        THEN IF Tok(toks, p + 1) \in {"]", "EOF"}
             THEN [ok |-> TRUE, elts |-> elts, pos |-> p + 1, comma |-> TRUE]
             ELSE Only({IF ~e.ok THEN Raised
                        ELSE Only({IF r.ok THEN [r EXCEPT !.comma = TRUE] ELSE Raised :
                                   r \in {ParseEltsRest(toks, Append(elts, e.node),
                                                        e.pos, allowStar)}}) :
                        e \in {ParseItem(toks, p + 1, allowStar)}})
    ELSE [ok |-> TRUE, elts |-> elts, pos |-> p, comma |-> FALSE]

ParseElts(toks, p, allowStar) ==
    Only({IF e.ok THEN ParseEltsRest(toks, <<e.node>>, e.pos, allowStar) ELSE Raised :
          e \in {ParseItem(toks, p, allowStar)}})

\* ast.parse(annotation): the Module, or SyntaxError.
Parse(text) ==
    LET toks == Lex(ExpandAtoms(text), 1)
    IN  IF \E i \in 1..Len(toks) : toks[i].k = "BAD" THEN Raised
        ELSE IF toks = <<>> THEN [ok |-> TRUE, node |-> Module(<<>>)]
        ELSE IF text[1] = " " THEN Raised
        ELSE Only({IF r.ok /\ r.pos = Len(toks) + 1
                   THEN [ok |-> TRUE,
                         node |-> Module(<<Expr(IF r.comma THEN Tuple(r.elts)
                                                          ELSE r.elts[1])>>)]
                   ELSE Raised :
                   r \in {ParseElts(toks, 1, TRUE)}})

(***************************************************************************)
(* CollapseAttrsVisitor (an ast.NodeTransformer).                          *)
(***************************************************************************)
RECURSIVE CollapseVisit(_), CollapseList(_)

\* NodeTransformer.generic_visit on a list field.
CollapseList(elts) ==
    IF elts = <<>> THEN [ok |-> TRUE, elts |-> <<>>]
    ELSE LET h == CollapseVisit(Head(elts))
             t == CollapseList(Tail(elts))
         IN  IF h.ok /\ t.ok THEN [ok |-> TRUE, elts |-> <<h.node>> \o t.elts]
             ELSE Raised

Visited(node) == [ok |-> TRUE, node |-> node]

\* A collapser that keeps only the last component of the parent's name.
ParentAttrLast(child) ==
    IF child.type = "Attribute" THEN [ok |-> TRUE, id |-> child.attr]
    ELSE IF child.type = "Name" THEN [ok |-> TRUE, id |-> <<child.id[Len(child.id)]>>]
    ELSE Raised

\* child.attr if isinstance(child, ast.Attribute) else child.id
ParentAttr(child) ==
    IF child.type = "Attribute" THEN [ok |-> TRUE, id |-> child.attr]
    ELSE IF child.type = "Name" THEN [ok |-> TRUE, id |-> child.id]
    ELSE Raised

CollapseVisit(node) ==
    CASE node.type = "Attribute" ->
            LET child == CollapseVisit(node.value)
            IN  IF ~child.ok THEN Raised
                ELSE LET parent_attr == ParentAttr(child.node)
                     IN  IF parent_attr.ok
                         THEN Visited(Name(parent_attr.id \o <<".">> \o node.attr))
                         ELSE Raised
      [] node.type \in {"Module"} ->
            LET b == CollapseList(node.body)
            IN  IF b.ok THEN Visited([node EXCEPT !.body = b.elts]) ELSE Raised
      [] node.type \in {"Tuple", "List"} ->
            LET e == CollapseList(node.elts)
            IN  IF e.ok THEN Visited([node EXCEPT !.elts = e.elts]) ELSE Raised
      [] node.type \in {"Expr", "Index", "Starred"} ->
            LET v == CollapseVisit(node.value)
            IN  IF v.ok THEN Visited([node EXCEPT !.value = v.node]) ELSE Raised
      [] node.type = "Subscript" ->
            LET v == CollapseVisit(node.value)
                s == CollapseVisit(node.slice)
            IN  IF v.ok /\ s.ok
                THEN Visited([node EXCEPT !.value = v.node, !.slice = s.node])
                ELSE Raised
      [] node.type = "BinOp" ->
            LET l == CollapseVisit(node.left)
                r == CollapseVisit(node.right)
            IN  IF l.ok /\ r.ok
                THEN Visited([node EXCEPT !.left = l.node, !.right = r.node])
                ELSE Raised
      [] node.type = "UnaryOp" ->
            LET o == CollapseVisit(node.operand)
            IN  IF o.ok THEN Visited([node EXCEPT !.operand = o.node]) ELSE Raised
      [] OTHER -> Visited(node)

(***************************************************************************)
(* RedocVisitor (an ast.NodeVisitor); out is self.output.                  *)
(***************************************************************************)
RECURSIVE RedocVisit(_, _), RedocList(_, _), visit_Tuple(_, _, _)

Wrote(out) == [ok |-> TRUE, out |-> out]

\* NodeVisitor.generic_visit on a list field.
RedocList(elts, out) ==
    IF elts = <<>> THEN Wrote(out)
    ELSE LET h == RedocVisit(Head(elts), out)
         IN  IF h.ok THEN RedocList(Tail(elts), h.out) ELSE Raised

\* A tuple renderer that writes the separator after every element.
visit_TupleTrailing(elts, idx, out) ==
    IF idx > Len(elts) THEN Wrote(out)
    ELSE LET r == RedocVisit(elts[idx], out)
         IN  IF r.ok THEN visit_Tuple(elts, idx + 1, r.out \o <<",", " ">>) ELSE Raised

\* for i, elt in enumerate(node.elts): visit, then ', ' unless it is the last.
visit_Tuple(elts, idx, out) ==
    IF idx > Len(elts) THEN Wrote(out)
    ELSE LET r == RedocVisit(elts[idx],
                             IF idx > 1 THEN out \o <<",", " ">> ELSE out)
         IN  IF r.ok THEN visit_Tuple(elts, idx + 1, r.out) ELSE Raised

visit_Name(node, out) ==
    LET name == IF HasattrTyping(node.id) THEN <<"~typing.">> \o node.id
                ELSE node.id
    IN  Wrote(out \o <<":py:obj:", Backtick>> \o name \o <<Backtick>>)

RedocVisit(node, out) ==
    CASE node.type = "Subscript" ->
            LET v == RedocVisit(node.value, out)
            IN  IF v.ok THEN RedocVisit(node.slice, v.out) ELSE Raised
      [] node.type = "Tuple" -> visit_Tuple(node.elts, 1, out)
      [] node.type = "Index" ->
            LET v == RedocVisit(node.value, out \o <<" ", "[", " ">>)
            IN  IF v.ok THEN Wrote(v.out \o <<" ", "]", " ">>) ELSE Raised
      [] node.type = "Name" -> visit_Name(node, out)
      [] node.type = "Attribute" ->
            LET v == RedocVisit(node.value, out)
            IN  IF v.ok THEN Wrote(v.out \o <<".">> \o node.attr) ELSE Raised
      [] node.type = "UnaryOp" ->
            IF node.op = "Invert"
            THEN IF node.operand.type = "Name"
                 THEN RedocVisit(Name(<<"~">> \o node.operand.id), out)
                 ELSE Raised
            ELSE RedocVisit(node.operand, out)
      [] node.type = "Ellipsis" -> Wrote(out \o <<".", ".", ".">>)
      [] node.type = "Module" -> RedocList(node.body, out)
      [] node.type = "List" -> RedocList(node.elts, out)
      [] node.type \in {"Expr", "Starred"} -> RedocVisit(node.value, out)
      [] node.type = "BinOp" ->
            LET l == RedocVisit(node.left, out)
            IN  IF l.ok THEN RedocVisit(node.right, l.out) ELSE Raised
      [] OTHER -> Wrote(out)

(***************************************************************************)
(* transform(annotation).                                                  *)
(***************************************************************************)
transform(text) ==
    Only({IF ~ast_tree.ok THEN Raised
          ELSE Only({IF ~collapsed.ok THEN Raised
                     ELSE RedocVisit(collapsed.node, <<>>) :
                     collapsed \in {CollapseVisit(ast_tree.node)}}) :
          ast_tree \in {Parse(text)}})

(***************************************************************************)
(* The locator patterns.  A match is [start, end, group]: the text         *)
(* consumed is start..end, group is match.group(1).                        *)
(***************************************************************************)
NoMatch == [ok |-> FALSE]

\* \*? at the head of both patterns: the star is taken when there is one.
AfterStar(text, s) == IF At(text, s) = "*" THEN s + 1 ELSE s

\* A tail that never takes the star.
WithStarNever(text, e) == e

\* \*? at the tail of both patterns.
WithStar(text, e) == IF At(text, e + 1) = "*" THEN e + 1 ELSE e

\* TYPE_RE anchored at s: a vocabulary name, "[", one or more characters up
\* to the last "]" of the line (.+ is greedy).
TYPE_RE(text, s) ==
    LET p == AfterStar(text, s)
        names == {nm \in _TYPES : NameAt(text, p, nm) /\ At(text, p + Len(nm)) = "["}
    IN  IF names = {} THEN NoMatch
        ELSE LET nm == CHOOSE x \in names : TRUE
                 closers == {q \in (p + Len(nm) + 2)..Len(text) : text[q] = "]"}
             IN  IF closers = {} THEN NoMatch
                 ELSE [ok |-> TRUE, start |-> s, end |-> WithStar(text, Max(closers)),
                       group |-> SubSeq(text, p, Max(closers))]

\* A pattern without its lookaheads.
NotAheadNever(text, e, x) == TRUE

\* (?! ?X): not X, and not a blank followed by X.
NotAhead(text, e, x) ==
    ~(At(text, e) = x \/ (At(text, e) = " " /\ At(text, e + 1) = x))

\* BARE_TYPE_RE anchored at s: the first alternative, in the order of
\* _BARE_TYPES, that is there and passes both lookaheads.
BARE_TYPE_RE(text, s) ==
    LET p == AfterStar(text, s)
        alts == {i \in 1..Len(_BARE_TYPES) :
                    /\ NameAt(text, p, _BARE_TYPES[i])
                    /\ NotAhead(text, p + Len(_BARE_TYPES[i]), "[")
                    /\ NotAhead(text, p + Len(_BARE_TYPES[i]), Backtick)}
    IN  IF alts = {} THEN NoMatch
        ELSE LET nm == _BARE_TYPES[Min(alts)]
             IN  [ok |-> TRUE, start |-> s, end |-> WithStar(text, p + Len(nm) - 1),
                  group |-> nm]

MatchAt(pattern, text, s) ==
    IF pattern = "TYPE_RE" THEN TYPE_RE(text, s) ELSE BARE_TYPE_RE(text, s)

\* pattern.search(text, pos): the leftmost match starting at or after pos.
Search(pattern, text, pos) ==
    LET starts == {s \in pos..Len(text) : MatchAt(pattern, text, s).ok}
    IN  IF starts = {} THEN NoMatch ELSE MatchAt(pattern, text, Min(starts))

\* A substitution that loses the text in front of the match.
SpliceDropping(acc, text, pos, m, repl) == acc \o repl

\* What re.sub has built once a match is replaced: the text between the
\* last match and this one, then the replacement.
Splice(acc, text, pos, m, repl) == acc \o SubSeq(text, pos, m.start - 1) \o repl

\* re.sub(pattern, lambda match: transform(match.group(1)), text): every
\* non-overlapping match, left to right; the first transform that raises
\* ends the substitution.
RECURSIVE re_sub(_, _, _, _)
re_sub(pattern, text, pos, acc) ==
    Only({IF ~m.ok THEN [ok |-> TRUE, text |-> acc \o SubSeq(text, pos, Len(text))]
          ELSE Only({IF ~r.ok THEN Raised
                     ELSE re_sub(pattern, text, m.end + 1,
                                 Splice(acc, text, pos, m, r.out)) :
                     r \in {transform(m.group)}}) :
          m \in {Search(pattern, text, pos)}})

(***************************************************************************)
(* The body of the loop of autodoc_process_docstring for one line.         *)
(***************************************************************************)
\* A loop body whose except clause forgets the failure.
RewriteLineSwallow(line) ==
    Only({IF ~first.ok THEN [new_line |-> line, raised |-> FALSE]
          ELSE Only({IF ~second.ok THEN [new_line |-> first.text, raised |-> FALSE]
                     ELSE [new_line |-> second.text, raised |-> FALSE] :
                     second \in {re_sub("BARE_TYPE_RE", first.text, 1, <<>>)}}) :
          first \in {re_sub("TYPE_RE", line, 1, <<>>)}})

\* A loop body with one try per pass: the bare pass runs on the line also
\* after the first pass has failed.
RewriteLinePerPass(line) ==
    Only({Only({[new_line |-> IF second.ok THEN second.text
                              ELSE IF first.ok THEN first.text ELSE line,
                 raised |-> ~first.ok \/ ~second.ok] :
                second \in {re_sub("BARE_TYPE_RE",
                                   IF first.ok THEN first.text ELSE line, 1, <<>>)}}) :
          first \in {re_sub("TYPE_RE", line, 1, <<>>)}})

\* new_line = line; try: the two substitutions; except Exception: warn.
RewriteLine(line) ==
    Only({IF ~first.ok THEN [new_line |-> line, raised |-> TRUE]
          ELSE Only({IF ~second.ok THEN [new_line |-> first.text, raised |-> TRUE]
                     ELSE [new_line |-> second.text, raised |-> FALSE] :
                     second \in {re_sub("BARE_TYPE_RE", first.text, 1, <<>>)}}) :
          first \in {re_sub("TYPE_RE", line, 1, <<>>)}})

(***************************************************************************)
(* Inputs.                                                                 *)
(***************************************************************************)
Texts(alphabet, maxLen) == UNION {[1..k -> alphabet] : k \in 0..maxLen}

Newline == "\n"

\* The lines of a docstring, as the host splits it.
RECURSIVE SplitLines(_)
SplitLines(doc) ==
    LET breaks == {i \in 1..Len(doc) : doc[i] = Newline}
    IN  IF breaks = {} THEN <<doc>>
        ELSE <<SubSeq(doc, 1, Min(breaks) - 1)>>
                \o SplitLines(SubSeq(doc, Min(breaks) + 1, Len(doc)))

BufAlphabet == {"List", "Any", "[", "]"}
LineAlphabet == {"Any", "[", "]", "*", Backtick}
EmbedAlphabet == {"Default", "Dict", "[", "]", "*"}
RerunAlphabet == {"List", "Any", "Str", "[", "]"}

\* The buffers of the docstrings of up to maxLen atoms.
Buffers(alphabet, maxLen) ==
    {SplitLines(doc) : doc \in Texts(alphabet \cup {Newline}, maxLen)}

\* One-line buffers.
OneLiners(alphabet, maxLen) == {<<t>> : t \in Texts(alphabet, maxLen)}

\* The expression trees of n nodes (an Index is not counted) that
\* annotations without parentheses spell.
NameIds == {<<"List">>, <<"Any">>, <<"cast">>, <<"int">>}
AttrIds == {<<"int">>, <<"Any">>}

RECURSIVE Postfix(_), Factor(_), FactorSeqs(_), Arg(_)

Postfix(k) ==
    IF k < 1 THEN {}
    ELSE IF k = 1 THEN {Name(id) : id \in NameIds} \cup {Ellipsis}
    ELSE {Attribute(v, a) : v \in Postfix(k - 1), a \in AttrIds}
         \cup UNION {{Subscript(v, Index(a)) : v \in Postfix(i), a \in Arg(k - 1 - i)} :
                        i \in 1..(k - 2)}

Factor(k) ==
    IF k < 1 THEN {}
    ELSE Postfix(k) \cup {UnaryOp("Invert", f) : f \in Factor(k - 1)}

FactorSeqs(m) ==
    IF m < 1 THEN {}
    ELSE {<<f>> : f \in Factor(m)}
         \cup UNION {{<<f>> \o r : f \in Factor(i), r \in FactorSeqs(m - i)} :
                        i \in 1..(m - 1)}

Arg(k) ==
    IF k < 1 THEN {}
    ELSE Factor(k) \cup {Tuple(elts) : elts \in FactorSeqs(k - 1)}

Trees(maxNodes) == UNION {Arg(k) : k \in 1..maxNodes}

\* The text of a tree.
RECURSIVE Unparse(_), UnparseElts(_)

UnparseElts(elts) ==
    IF Len(elts) = 1 THEN Unparse(elts[1])
    ELSE Unparse(Head(elts)) \o <<",", " ">> \o UnparseElts(Tail(elts))

Unparse(t) ==
    CASE t.type = "Name" -> t.id
      [] t.type = "Ellipsis" -> <<".", ".", ".">>
      [] t.type = "Attribute" -> Unparse(t.value) \o <<".">> \o t.attr
      [] t.type = "Subscript" -> Unparse(t.value) \o <<"[">> \o Unparse(t.slice) \o <<"]">>
      [] t.type = "Index" -> Unparse(t.value)
      [] t.type = "UnaryOp" -> <<"~">> \o Unparse(t.operand)
      [] t.type = "Tuple" ->
            IF Len(t.elts) = 1 THEN Unparse(t.elts[1]) \o <<",">>
            ELSE UnparseElts(t.elts)

Annotations(maxNodes) == {Unparse(t) : t \in Trees(maxNodes)}

(***************************************************************************)
(* autodoc_process_docstring as the host calls it.                         *)
(***************************************************************************)
\* The hook has just been entered with buf: line 133.
Entered(buf) ==
    /\ lines = buf
    /\ old_lines = buf
    /\ n = 1
    /\ pc = IF buf = <<>> THEN "done" ELSE "loop"
    /\ calls = 1
    /\ warnings = <<>>
    /\ verbose = <<>>
    /\ assigned = {}
    /\ log = <<>>

NoTransform ==
    /\ annotation = <<>>
    /\ parsed = Module(<<>>)
    /\ tree = Module(<<>>)
    /\ output = <<>>
    /\ tpc = "idle"

Init == (\E buf \in Buffers(BufAlphabet, MaxBufLen) : Entered(buf)) /\ NoTransform

InitLine == (\E buf \in OneLiners(LineAlphabet, MaxLineLen) : Entered(buf)) /\ NoTransform

InitEmbed == (\E buf \in OneLiners(EmbedAlphabet, MaxEmbedLen) : Entered(buf)) /\ NoTransform

InitRerun == (\E buf \in OneLiners(RerunAlphabet, MaxRerunLen) : Entered(buf)) /\ NoTransform

\* A loop that assigns and reports every line.
LineChangedAlways(line, new_line) == TRUE

\* if line != new_line
LineChanged(line, new_line) == line # new_line

\* One iteration of the loop over enumerate(lines); after the last one the
\* hook returns.
ProcessLine ==
    /\ pc = "loop"
    /\ \E line \in {lines[n]} : \E r \in {RewriteLine(line)} :
           /\ warnings' = IF r.raised
                          THEN Append(warnings, [n |-> n, line |-> line])
                          ELSE warnings
           /\ IF LineChanged(line, r.new_line)
              THEN /\ verbose' = Append(verbose,
                                  [n |-> n, line |-> line, new_line |-> r.new_line])
                   /\ lines' = [lines EXCEPT ![n] = r.new_line]
                   /\ assigned' = assigned \cup {n}
              ELSE UNCHANGED <<verbose, lines, assigned>>
    /\ n' = n + 1
    /\ pc' = IF n = Len(lines) THEN "done" ELSE "loop"
    /\ log' = IF n = Len(lines)
              THEN Append(log, [input |-> old_lines, output |-> lines',
                                warnings |-> warnings', verbose |-> verbose'])
              ELSE log
    /\ UNCHANGED <<old_lines, calls, trVars>>

\* The host runs the hook again on the buffer the last call left.
Call ==
    /\ pc = "done"
    /\ calls < MaxCalls
    /\ lines # <<>>
    /\ calls' = calls + 1
    /\ old_lines' = lines
    /\ n' = 1
    /\ pc' = "loop"
    /\ warnings' = <<>>
    /\ verbose' = <<>>
    /\ assigned' = {}
    /\ UNCHANGED <<lines, log, trVars>>

Next == ProcessLine

Spec == Init /\ [][Next]_vars

SpecLine == InitLine /\ [][Next]_vars

SpecEmbed == InitEmbed /\ [][Next]_vars

NextRerun == ProcessLine \/ Call

SpecRerun == InitRerun /\ [][NextRerun]_vars

(***************************************************************************)
(* transform(annotation), statement by statement.                          *)
(***************************************************************************)
InitTransform ==
    /\ annotation \in Annotations(MaxNodes)
    /\ parsed = Module(<<>>)
    /\ tree = Module(<<>>)
    /\ output = <<>>
    /\ tpc = "parse"
    /\ lines = <<>>
    /\ old_lines = <<>>
    /\ n = 1
    /\ pc = "done"
    /\ calls = 0
    /\ warnings = <<>>
    /\ verbose = <<>>
    /\ assigned = {}
    /\ log = <<>>

\* tree = ast.parse(annotation)
ParseStep ==
    /\ tpc = "parse"
    /\ \E r \in {Parse(annotation)} :
           IF r.ok
           THEN tree' = r.node /\ parsed' = r.node /\ tpc' = "collapse"
           ELSE tpc' = "raised" /\ UNCHANGED <<tree, parsed>>
    /\ UNCHANGED <<annotation, output, docVars>>

\* tree = transformer.visit(tree)
CollapseStep ==
    /\ tpc = "collapse"
    /\ \E r \in {CollapseVisit(tree)} :
           IF r.ok
           THEN tree' = r.node /\ tpc' = "render"
           ELSE tpc' = "raised" /\ UNCHANGED tree
    /\ UNCHANGED <<annotation, parsed, output, docVars>>

\* visitor.visit(tree); return visitor.output
RenderStep ==
    /\ tpc = "render"
    /\ \E r \in {RedocVisit(tree, <<>>)} :
           IF r.ok
           THEN output' = r.out /\ tpc' = "done"
           ELSE tpc' = "raised" /\ UNCHANGED output
    /\ UNCHANGED <<annotation, parsed, tree, docVars>>

NextTransform == ParseStep \/ CollapseStep \/ RenderStep

SpecTransform == InitTransform /\ [][NextTransform]_vars

(***************************************************************************)
(* Properties of transform.                                                *)
(***************************************************************************)
\* The expression ast.parse found in the annotation.
ParsedExpr == parsed.body[1].value

\* The expression transform holds after collapsing.
TreeExpr == tree.body[1].value

Count(text, a) == Cardinality({k \in 1..Len(text) : text[k] = a})

\* How many brackets are open after the first k atoms of a text.
Depth(text, k) == Count(SubSeq(text, 1, k), "[") - Count(SubSeq(text, 1, k), "]")

Balanced(text) ==
    /\ \A k \in 1..Len(text) : Count(SubSeq(text, 1, k), "[") >= Count(SubSeq(text, 1, k), "]")
    /\ Count(text, "[") = Count(text, "]")

MaxDepth(text) == Max({Depth(text, k) : k \in 0..Len(text)})

\* The places a text holds the atoms of part at.
Occurrences(text, part) == {k \in 1..Len(text) : NameAt(text, k, part)}

RECURSIVE PlainTree(_), Subscripts(_), Rendering(_), RenderingJoined(_)

\* A tree built from names, subscripts, tuples and ellipsis only.
PlainTree(t) ==
    CASE t.type \in {"Name", "Ellipsis"} -> TRUE
      [] t.type = "Subscript" -> PlainTree(t.value) /\ PlainTree(t.slice.value)
      [] t.type = "Tuple" -> \A k \in 1..Len(t.elts) : PlainTree(t.elts[k])
      [] OTHER -> FALSE

\* The number of Subscript nodes of a plain tree.
Subscripts(t) ==
    CASE t.type = "Subscript" -> 1 + Subscripts(t.value) + Subscripts(t.slice.value)
      [] t.type = "Tuple" ->
            IF t.elts = <<>> THEN 0
            ELSE Subscripts(t.elts[1]) + Subscripts(Tuple(Tail(t.elts)))
      [] OTHER -> 0

\* The object reference of an identifier: under ~typing. when the typing
\* module has the name.
Reference(id) ==
    <<":py:obj:", Backtick>>
        \o (IF id \in TypingAll THEN <<"~typing.">> \o id ELSE id)
        \o <<Backtick>>

\* The rendering rules, read off the claim.
RenderingJoined(elts) ==
    IF elts = <<>> THEN <<>>
    ELSE IF Len(elts) = 1 THEN Rendering(elts[1])
    ELSE Rendering(Head(elts)) \o <<",", " ">> \o RenderingJoined(Tail(elts))

Rendering(t) ==
    CASE t.type = "Name" -> Reference(t.id)
      [] t.type = "Ellipsis" -> <<".", ".", ".">>
      [] t.type = "Tuple" -> RenderingJoined(t.elts)
      [] t.type = "Subscript" ->
            Rendering(t.value) \o <<" ", "[", " ">>
                \o Rendering(t.slice.value) \o <<" ", "]", " ">>

\* C6: for every tree of names, subscripts, tuples and ellipsis, transform
\* returns the rendering of the tree: a Subscript is its object, " [ ", its
\* argument, " ] "; a Tuple is its elements joined by ", " with nothing after
\* the last; an Ellipsis is "...".  The output has one " [ " and one " ] "
\* per Subscript node, balanced, and as deep as the brackets of the input.
RendererStructure ==
    (tpc = "done" /\ PlainTree(ParsedExpr)) =>
        /\ output = Rendering(ParsedExpr)
        /\ Cardinality(Occurrences(output, <<" ", "[", " ">>)) = Subscripts(ParsedExpr)
        /\ Cardinality(Occurrences(output, <<" ", "]", " ">>)) = Subscripts(ParsedExpr)
        /\ Count(output, "[") = Subscripts(ParsedExpr)
        /\ Count(output, "]") = Subscripts(ParsedExpr)
        /\ Balanced(output)
        /\ MaxDepth(output) = MaxDepth(annotation)

\* A subscript nested in a subscript has been rendered.
RendererStructureWitness ==
    /\ tpc = "done"
    /\ PlainTree(ParsedExpr)
    /\ MaxDepth(annotation) >= 2
    /\ MaxDepth(output) >= 2

RECURSIVE RenderedIds(_), RenderedIdsOf(_), References(_)

\* The identifiers the renderer is handed, in the order it visits them.
RenderedIdsOf(elts) ==
    IF elts = <<>> THEN <<>>
    ELSE RenderedIds(Head(elts)) \o RenderedIdsOf(Tail(elts))

RenderedIds(t) ==
    CASE t.type = "Name" -> <<t.id>>
      [] t.type = "Subscript" -> RenderedIds(t.value) \o RenderedIds(t.slice)
      [] t.type \in {"Index", "Expr", "Starred"} -> RenderedIds(t.value)
      [] t.type \in {"Tuple", "List"} -> RenderedIdsOf(t.elts)
      [] t.type = "Module" -> RenderedIdsOf(t.body)
      [] t.type = "BinOp" -> RenderedIds(t.left) \o RenderedIds(t.right)
      [] t.type = "UnaryOp" ->
            IF t.op = "Invert" THEN << <<"~">> \o t.operand.id >>
            ELSE RenderedIds(t.operand)
      [] OTHER -> <<>>

\* The targets of the :py:obj: references of a text, in order.
References(text) ==
    LET roles == {k \in 1..Len(text) : text[k] = ":py:obj:"}
    IN  IF roles = {} THEN <<>>
        ELSE LET open == Min(roles) + 1
                 close == Min({k \in (open + 1)..Len(text) : text[k] = Backtick})
             IN  <<SubSeq(text, open + 1, close - 1)>>
                    \o References(SubSeq(text, close + 1, Len(text)))

\* The locator's vocabulary: the argument-taking set and the bare set.
Vocabulary == _TYPES \cup {_BARE_TYPES[k] : k \in 1..Len(_BARE_TYPES)}

\* C7 as claimed: an identifier is rendered under ~typing. exactly when it is
\* in the locator's vocabulary; the excluded helper names and every other
\* name are rendered plain.
NamespacedIffInVocabulary ==
    tpc = "done" =>
        References(output) =
            [k \in 1..Len(RenderedIds(tree)) |->
                IF RenderedIds(tree)[k] \in Vocabulary
                THEN <<"~typing.">> \o RenderedIds(tree)[k]
                ELSE RenderedIds(tree)[k]]

\* C7: an identifier is rendered under ~typing. exactly when the typing
\* module has an attribute of that name, so the helper names the vocabulary
\* leaves out (cast) are namespaced too; every other identifier is rendered
\* as a plain :py:obj: reference.
NamespacedIffTypingAttribute ==
    tpc = "done" =>
        References(output) =
            [k \in 1..Len(RenderedIds(tree)) |->
                IF RenderedIds(tree)[k] \in TypingAll
                THEN <<"~typing.">> \o RenderedIds(tree)[k]
                ELSE RenderedIds(tree)[k]]

\* A helper name, an ordinary name and a vocabulary name have been rendered.
NamespacedWitness ==
    /\ tpc = "done"
    /\ \E k \in 1..Len(RenderedIds(tree)) : RenderedIds(tree)[k] = <<"cast">>
    /\ \E k \in 1..Len(RenderedIds(tree)) : RenderedIds(tree)[k] = <<"int">>
    /\ \E k \in 1..Len(RenderedIds(tree)) : RenderedIds(tree)[k] = <<"List">>

RECURSIVE DottedId(_), Collapsed(_), CollapsedAll(_), HasAttribute(_)

\* The identifiers of a chain of Attribute nodes that ends in a Name,
\* joined by dots, the base first.
DottedId(t) ==
    IF t.type = "Name" THEN t.id ELSE DottedId(t.value) \o <<".">> \o t.attr

CollapsedAll(elts) ==
    IF elts = <<>> THEN <<>> ELSE <<Collapsed(Head(elts))>> \o CollapsedAll(Tail(elts))

\* The tree with every chain replaced by one Name.
Collapsed(t) ==
    CASE t.type = "Attribute" -> Name(DottedId(t))
      [] t.type = "Subscript" -> Subscript(Collapsed(t.value), Collapsed(t.slice))
      [] t.type = "Index" -> Index(Collapsed(t.value))
      [] t.type = "Tuple" -> Tuple(CollapsedAll(t.elts))
      [] t.type = "UnaryOp" -> UnaryOp(t.op, Collapsed(t.operand))
      [] t.type = "Expr" -> Expr(Collapsed(t.value))
      [] t.type = "Module" -> Module(CollapsedAll(t.body))
      [] OTHER -> t

HasAttribute(t) ==
    CASE t.type = "Attribute" -> TRUE
      [] t.type = "Subscript" -> HasAttribute(t.value) \/ HasAttribute(t.slice)
      [] t.type \in {"Index", "Expr"} -> HasAttribute(t.value)
      [] t.type = "Tuple" -> \E k \in 1..Len(t.elts) : HasAttribute(t.elts[k])
      [] t.type = "Module" -> \E k \in 1..Len(t.body) : HasAttribute(t.body[k])
      [] t.type = "UnaryOp" -> HasAttribute(t.operand)
      [] OTHER -> FALSE

\* C9: once the collapser has run, every chain of Attribute nodes ending in
\* a Name is one Name whose identifier is the chain's identifiers joined by
\* dots, base first, also in a Subscript argument or a Tuple element, and no
\* Attribute node is left for the renderer.
ChainCollapsing ==
    tpc \in {"render", "done"} =>
        /\ tree = Collapsed(parsed)
        /\ ~HasAttribute(tree)

\* A chain of three identifiers in a Subscript argument has been collapsed.
ChainCollapsingWitness ==
    /\ tpc = "done"
    /\ ParsedExpr.type = "Subscript"
    /\ ParsedExpr.slice.value.type = "Attribute"
    /\ ParsedExpr.slice.value.value.type = "Attribute"
    /\ TreeExpr.slice.value.type = "Name"

(***************************************************************************)
(* Properties of autodoc_process_docstring.                                *)
(***************************************************************************)
\* The records of a logger that are about line i.
RecordsFor(records, i) == {k \in 1..Len(records) : records[k].n = i}

\* The bare pass alone.
BarePass(text) == re_sub("BARE_TYPE_RE", text, 1, <<>>).text

\* TYPE_RE locates a substring of the line that transform raises on.  (The
\* pattern runs to the last "]" of the line, so a line has one match at most.)
LocatedFailure(line) ==
    LET m == Search("TYPE_RE", line, 1)
    IN  m.ok /\ ~transform(m.group).ok

\* A vocabulary name and an opening bracket that nothing closes.
UnclosedBracket(line) ==
    \E nm \in _TYPES, p \in 1..Len(line) :
        /\ NameAt(line, p, nm)
        /\ At(line, p + Len(nm)) = "["
        /\ \A q \in (p + Len(nm) + 1)..Len(line) : line[q] # "]"

\* Line i is as it was, one diagnostic is about it, the loop has gone
\* through the buffer and every later line is what the hook makes of it
\* alone.
Isolated(i) ==
    /\ lines[i] = old_lines[i]
    /\ Cardinality(RecordsFor(warnings, i)) + Cardinality(RecordsFor(verbose, i)) = 1
    /\ n = Len(old_lines) + 1
    /\ \A j \in (i + 1)..Len(old_lines) : lines[j] = RewriteLine(old_lines[j]).new_line

\* C3 as claimed: every line with an unparsable bracket expression, an
\* unclosed bracket after a type name included, is left as it was with
\* exactly one diagnostic, and the lines after it are rewritten as usual.
FailureIsolationAnyBracket ==
    pc = "done" =>
        \A i \in 1..Len(old_lines) :
            (LocatedFailure(old_lines[i]) \/ UnclosedBracket(old_lines[i])) => Isolated(i)

\* C3: every line on which TYPE_RE locates a substring that transform
\* raises on is left as it was, with exactly one diagnostic (a warning and
\* no verbose record); the hook returns normally and the lines after it
\* are rewritten as they are in a buffer of their own.
FailureIsolation ==
    pc = "done" =>
        \A i \in 1..Len(old_lines) :
            LocatedFailure(old_lines[i]) =>
                /\ Isolated(i)
                /\ Cardinality(RecordsFor(warnings, i)) = 1
                /\ warnings[CHOOSE k \in RecordsFor(warnings, i) : TRUE].line = old_lines[i]

\* A line failed and the line after it was rewritten.
FailureIsolationWitness ==
    /\ pc = "done"
    /\ Len(old_lines) >= 2
    /\ LocatedFailure(old_lines[1])
    /\ lines[1] = old_lines[1]
    /\ lines[2] # old_lines[2]

\* A bare-type match outside the span of the line's TYPE_RE match.
OtherMatch(line) ==
    LET m == Search("TYPE_RE", line, 1)
    IN  \/ Search("BARE_TYPE_RE", SubSeq(line, 1, m.start - 1), 1).ok
        \/ Search("BARE_TYPE_RE", SubSeq(line, m.end + 1, Len(line)), 1).ok

\* C4 as claimed: when the transform of a match raises, only that match is
\* left; the bare names before and after it are replaced by their markup.
OnlyOffendingMatchLeft ==
    pc = "done" =>
        \A i \in 1..Len(old_lines) :
            LocatedFailure(old_lines[i]) =>
                LET line == old_lines[i]
                    m == Search("TYPE_RE", line, 1)
                IN  lines[i] = BarePass(SubSeq(line, 1, m.start - 1))
                                \o SubSeq(line, m.start, m.end)
                                \o BarePass(SubSeq(line, m.end + 1, Len(line)))

\* C4: when the transform of a match raises, the whole line is left
\* unrewritten: lines[n] is not assigned, and the other matches of the
\* line, the bare names of the second pass included, get no markup.
WholeLineLeftOnFailure ==
    pc = "done" =>
        \A i \in 1..Len(old_lines) :
            (LocatedFailure(old_lines[i]) /\ OtherMatch(old_lines[i])) =>
                /\ lines[i] = old_lines[i]
                /\ i \notin assigned
                /\ Count(lines[i], ":py:obj:") = 0
                /\ RecordsFor(verbose, i) = {}

\* A line with a failing match and a bare name next to it has been processed.
WholeLineLeftWitness ==
    /\ pc = "done"
    /\ \E i \in 1..Len(old_lines) :
        /\ LocatedFailure(old_lines[i])
        /\ OtherMatch(old_lines[i])
        /\ BarePass(old_lines[i]) # old_lines[i]

\* The lines the hook has changed.
ChangedLines == {i \in 1..Len(old_lines) : lines[i] # old_lines[i]}

\* C10: the buffer keeps its length and order: a line the loop has passed
\* holds the rewriting of the line that was there, a line it has not
\* reached is untouched; lines[n] is assigned exactly at the changed lines,
\* a line neither pattern matches stays identical, and the verbose records
\* are the changed lines, one each, in order, with the text before and after.
InPlaceFrame ==
    /\ Len(lines) = Len(old_lines)
    /\ \A i \in 1..Len(old_lines) :
        /\ i >= n => lines[i] = old_lines[i]
        /\ (i < n /\ pc \in {"loop", "done"} /\ calls > 0) =>
                lines[i] = RewriteLine(old_lines[i]).new_line
        /\ (/\ i < n
            /\ ~Search("TYPE_RE", old_lines[i], 1).ok
            /\ ~Search("BARE_TYPE_RE", old_lines[i], 1).ok) => lines[i] = old_lines[i]
    /\ assigned = ChangedLines
    /\ Len(verbose) = Cardinality(ChangedLines)
    /\ \A k \in 1..Len(verbose) :
        /\ verbose[k].n \in ChangedLines
        /\ verbose[k].line = old_lines[verbose[k].n]
        /\ verbose[k].new_line = lines[verbose[k].n]
        /\ \A l \in 1..(k - 1) : verbose[l].n < verbose[k].n

\* A buffer with a changed line and an unchanged one has been processed.
InPlaceFrameWitness ==
    /\ pc = "done"
    /\ ChangedLines # {}
    /\ ChangedLines # 1..Len(old_lines)
    /\ Len(verbose) = Cardinality(ChangedLines)

(***************************************************************************)
(* Properties of the two passes.                                           *)
(***************************************************************************)
\* C5: a line the hook has produced by rewriting matches neither TYPE_RE
\* nor BARE_TYPE_RE, and the next call of the hook on the buffer leaves it
\* unchanged and emits nothing about it.
IdempotentOnRewritten ==
    \A k \in 1..Len(log) :
        \A i \in 1..Len(log[k].input) :
            log[k].output[i] # log[k].input[i] =>
                /\ Count(log[k].output[i], ":py:obj:") > 0
                /\ ~Search("TYPE_RE", log[k].output[i], 1).ok
                /\ ~Search("BARE_TYPE_RE", log[k].output[i], 1).ok
                /\ (k < Len(log) =>
                        /\ log[k + 1].input[i] = log[k].output[i]
                        /\ log[k + 1].output[i] = log[k].output[i]
                        /\ RecordsFor(log[k + 1].verbose, i) = {}
                        /\ RecordsFor(log[k + 1].warnings, i) = {})

\* The hook has run again on a line whose bracketed annotation it had
\* rewritten.
IdempotentWitness ==
    /\ pc = "done"
    /\ Len(log) = 2
    /\ log[1].output[1] # log[1].input[1]
    /\ Search("TYPE_RE", log[1].input[1], 1).ok
    /\ Occurrences(log[1].output[1], <<" ", "[", " ">>) # {}

\* C8: the markup the first pass emits for a match is in the final line
\* unmodified, whatever names are rendered inside it: the bare pass
\* rewrites only text the first pass did not produce.
FirstPassMarkupKept ==
    \A k \in 1..Len(log) :
        \A i \in 1..Len(log[k].input) :
            LET m == Search("TYPE_RE", log[k].input[i], 1)
            IN  (m.ok /\ transform(m.group).ok) =>
                    Occurrences(log[k].output[i], transform(m.group).out) # {}

(***************************************************************************)
(* Properties of the locator.                                              *)
(***************************************************************************)
\* The whole of X is what the pattern captures as group(1).
Annotation(pattern, X) ==
    LET m == MatchAt(pattern, X, 1)
    IN  m.ok /\ m.group = X

Located(X) == Annotation("TYPE_RE", X) \/ Annotation("BARE_TYPE_RE", X)

DecorationCharacters == {"*", Backtick}

Decorated(d, line) == Len(line) >= 3 /\ line[1] = d /\ line[Len(line)] = d

Inner(line) == SubSeq(line, 2, Len(line) - 1)

\* C2 as claimed: whatever the decoration character d, the line d X d of an
\* annotation X a pattern matches is rewritten to what X is rewritten to.
AnyDecorationStripped ==
    pc = "done" =>
        \A d \in DecorationCharacters :
            (Decorated(d, old_lines[1]) /\ Located(Inner(old_lines[1]))) =>
                lines[1] = RewriteLine(Inner(old_lines[1])).new_line

\* C2: for every annotation X that a pattern matches and transform accepts,
\* the line * X * is rewritten to exactly the text X is rewritten to, with
\* no star left over; the star is the decoration character the patterns
\* strip.
StarDecorationStripped ==
    (/\ pc = "done"
     /\ Decorated("*", old_lines[1])
     /\ Located(Inner(old_lines[1]))
     /\ transform(Inner(old_lines[1])).ok) =>
        /\ lines[1] = RewriteLine(Inner(old_lines[1])).new_line
        /\ lines[1] # Inner(old_lines[1])
        /\ Count(lines[1], "*") = 0

\* A bracketed annotation between two stars has been rewritten.
StarDecorationWitness ==
    /\ pc = "done"
    /\ Decorated("*", old_lines[1])
    /\ Annotation("TYPE_RE", Inner(old_lines[1]))
    /\ transform(Inner(old_lines[1])).ok
    /\ Count(lines[1], ":py:obj:") > 0

\* X is a well-formed bracketed annotation: an argument-taking name, the
\* bracket that opens right after it closes at the end of X, and transform
\* accepts X.
BracketedAnnotation(X) ==
    /\ \E nm \in _TYPES :
        /\ NameAt(X, 1, nm)
        /\ At(X, Len(nm) + 1) = "["
        /\ \A k \in (Len(nm) + 1)..(Len(X) - 1) : Depth(X, k) > 0
        /\ Depth(X, Len(X)) = 0
    /\ transform(X).ok

\* The text holds no recognized type name.
NoTypeName(text) == \A nm \in Vocabulary : Occurrences(text, nm) = {}

\* C1 as claimed: whatever text without a type name surrounds a well-formed
\* bracketed annotation X, the line is rewritten to prefix, transform(X),
\* suffix.
EmbeddingInAnyText ==
    pc = "done" =>
        \A i \in 1..Len(old_lines[1]) : \A j \in i..Len(old_lines[1]) :
            LET prefix == SubSeq(old_lines[1], 1, i - 1)
                X == SubSeq(old_lines[1], i, j)
                suffix == SubSeq(old_lines[1], j + 1, Len(old_lines[1]))
            IN  (BracketedAnnotation(X) /\ NoTypeName(prefix) /\ NoTypeName(suffix)) =>
                    lines[1] = prefix \o transform(X).out \o suffix

\* The surroundings the patterns cannot reach into: no type name begins in
\* the prefix (not one that runs on into X either), the prefix does not end
\* and the suffix does not begin with a star, and the suffix has no type
\* name and no closing bracket.
ClearContext(prefix, X, suffix) ==
    /\ \A nm \in Vocabulary : \A k \in 1..Len(prefix) : ~NameAt(prefix \o X, k, nm)
    /\ At(prefix, Len(prefix)) # "*"
    /\ At(suffix, 1) # "*"
    /\ NoTypeName(suffix)
    /\ Count(suffix, "]") = 0

\* C1: for every line prefix X suffix with X a well-formed bracketed
\* annotation in a clear context, the hook rewrites the line to the prefix,
\* the text it rewrites the line X to, and the suffix: only the annotation
\* is replaced, the surrounding atoms stay as they are and in order.
EmbeddingInClearContext ==
    pc = "done" =>
        \A i \in 1..Len(old_lines[1]) : \A j \in i..Len(old_lines[1]) :
            LET prefix == SubSeq(old_lines[1], 1, i - 1)
                X == SubSeq(old_lines[1], i, j)
                suffix == SubSeq(old_lines[1], j + 1, Len(old_lines[1]))
            IN  (BracketedAnnotation(X) /\ ClearContext(prefix, X, suffix)) =>
                    /\ lines[1] = prefix \o RewriteLine(X).new_line \o suffix
                    /\ RewriteLine(X).new_line # X
                    /\ warnings = <<>>

\* An annotation with text on both sides has been rewritten.
EmbeddingWitness ==
    /\ pc = "done"
    /\ \E i \in 2..Len(old_lines[1]) : \E j \in i..(Len(old_lines[1]) - 1) :
        /\ BracketedAnnotation(SubSeq(old_lines[1], i, j))
        /\ ClearContext(SubSeq(old_lines[1], 1, i - 1), SubSeq(old_lines[1], i, j),
                        SubSeq(old_lines[1], j + 1, Len(old_lines[1])))
        /\ lines[1] # old_lines[1]

====
